---- MODULE Spec2Model ----
(***************************************************************************)
(* The /reconcile handler of src/main.py: three decoded CSV tables are     *)
(* header-trimmed, validated, left-joined twice, projected, renamed,       *)
(* filtered and de-duplicated.                                              *)
(*                                                                         *)
(* A column name is a sequence of tokens: a token is one whitespace        *)
(* character or a run of non-whitespace characters ('Drop Date' is         *)
(* <<"Drop", " ", "Date">>).  A table is a record of its column names and  *)
(* its rows; a row is the sequence of its cells, in column order.  A cell  *)
(* is a string; the string "NaN" is the null cell (pandas reads the CSV    *)
(* text NaN, and the empty cell, as null).  The input tables have pairwise *)
(* distinct column names after trimming and their cells are strings or     *)
(* null: a column of one or more rows, all null, is read as float64, any   *)
(* other column as object.                                                 *)
(***************************************************************************)
EXTENDS Naturals, Sequences, FiniteSets, TLC

VARIABLES pc, df1, df2, df3, merged_df, final_merge_df, filtered_df, response

vars == <<pc, df1, df2, df3, merged_df, final_merge_df, filtered_df, response>>

\* Bound on the total number of rows of the three input tables.
MaxRows == 3

NaN == "NaN"

\* The characters str.strip() removes: those with str.isspace().  A character
\* that a string of this module cannot spell is written as the name of its
\* code point.
Whitespace ==
    { "\t", "\n", "U+000B", "\f", "\r", "U+001C", "U+001D", "U+001E", "U+001F",
      " ", "U+0085", "U+00A0", "U+1680", "U+2000", "U+2001", "U+2002", "U+2003",
      "U+2004", "U+2005", "U+2006", "U+2007", "U+2008", "U+2009", "U+200A",
      "U+2028", "U+2029", "U+202F", "U+205F", "U+3000" }

NoTable == [columns |-> <<>>, rows |-> <<>>]

NoResponse == [status |-> 0]

-----------------------------------------------------------------------------
\* Column names of the program.

Pickticket == <<"Pickticket">>
AXReferenceID == <<"AXReferenceID">>
PickRoute == <<"PickRoute">>
Warehouse == <<"Warehouse">>
InvoiceNumber == <<"InvoiceNumber">>
StatusSummary == <<"StatusSummary">>
ERRORDESCRIPTION == <<"ERRORDESCRIPTION">>
SalesHeaderDocStatus == <<"SalesHeaderDocStatus">>
ReceivedInEDI == <<"Received", " ", "in", " ", "EDI?">>
EDIProcessingStatus == <<"EDI", " ", "Processing", " ", "Status">>
EDIMessage == <<"EDI", " ", "Message">>
FoundInAXData == <<"Found", " ", "in", " ", "AX", " ", "DATa?">>

\* The tail shared by the two allow-lists (lines 64-67 and 76-79).
ShipmentColumns ==
    << <<"Order">>, <<"Drop", " ", "Date">>, <<"Ship", " ", "Date">>,
       <<"Ship", " ", "To">>, <<"Ship", " ", "State">>, <<"Zip", " ", "Code">>,
       <<"Customer", " ", "PO">>, <<"Ship", " ", "Via">>, <<"Load", " ", "ID">>,
       <<"Weight">>, <<"SKU">>, <<"Units">>, <<"Price">>,
       <<"Size", " ", "Type">>, <<"Size">>, <<"Product", " ", "Type">>,
       InvoiceNumber, StatusSummary, ERRORDESCRIPTION >>

FirstAllowList == <<Warehouse, Pickticket>> \o ShipmentColumns

SecondAllowList_StepFourOrder ==
    <<Warehouse, Pickticket>> \o ShipmentColumns \o
    << PickRoute, <<"SalesHeaderStatus">>, SalesHeaderDocStatus,
       <<"PickModeOfDelivery">>, <<"PickCreatedDate">>, <<"DeliveryDate">> >>

SecondAllowList ==
    <<Pickticket, Warehouse>> \o ShipmentColumns \o
    << PickRoute, <<"SalesHeaderStatus">>, SalesHeaderDocStatus,
       <<"PickModeOfDelivery">>, <<"PickCreatedDate">>, <<"DeliveryDate">> >>

-----------------------------------------------------------------------------
\* str.strip() on a column name.

RECURSIVE lstrip(_)
lstrip(name) ==
    IF name # <<>> /\ Head(name) \in Whitespace THEN lstrip(Tail(name)) ELSE name

RECURSIVE rstrip(_)
rstrip(name) ==
    IF name # <<>> /\ name[Len(name)] \in Whitespace
    THEN rstrip(SubSeq(name, 1, Len(name) - 1))
    ELSE name

strip_LeftOnly(name) == lstrip(name)

strip(name) == rstrip(lstrip(name))

\* df.columns = df.columns.astype(str).str.strip()
TrimHeaders(df) ==
    [df EXCEPT !.columns = [i \in DOMAIN df.columns |-> strip(df.columns[i])]]

\* c in df.columns
HasColumn(df, c) == \E i \in DOMAIN df.columns : df.columns[i] = c

\* Position of column c of df.
ColumnIndex(df, c) == CHOOSE i \in DOMAIN df.columns : df.columns[i] = c

\* df[c]: the cells of column c, one per row.
Column(df, c) == [r \in DOMAIN df.rows |-> df.rows[r][ColumnIndex(df, c)]]

-----------------------------------------------------------------------------
\* pd.merge(left, right, how='left', left_on=[lk], right_on=[rk]), lk # rk.

\* The dtype read_csv gives column c, which the joins and projections keep.
dtype(df, c) ==
    IF df.rows # <<>> /\ \A r \in DOMAIN df.rows : Column(df, c)[r] = NaN
    THEN "float64"
    ELSE "object"

\* _maybe_coerce_merge_keys: with rows on both sides, a numeric key against a
\* key holding strings is refused.
IncompatibleKeys(left, right, lk, rk) ==
    /\ left.rows # <<>>
    /\ right.rows # <<>>
    /\ dtype(left, lk) # dtype(right, rk)

\* A column name carried by both sides gets the side's suffix.
Suffixed(cols, other, sfx) ==
    [i \in DOMAIN cols |->
        IF \E j \in DOMAIN other : other[j] = cols[i]
        THEN Append(cols[i], sfx)
        ELSE cols[i]]

Matches_AnyKey(right, rk, v) == right.rows

\* The rows of right whose key cell equals v, in right's order (null keys
\* match null keys).
Matches(right, rk, v) ==
    SelectSeq(right.rows, LAMBDA r : r[ColumnIndex(right, rk)] = v)

RightPart_InnerJoin(right, m) == m

\* What a left row is extended with: its matches, or one all-null row.
RightPart(right, m) ==
    IF m = <<>> THEN << [j \in DOMAIN right.columns |-> NaN] >> ELSE m

RECURSIVE LeftJoinRows(_, _, _, _, _)
LeftJoinRows(lrows, left, right, lk, rk) ==
    IF lrows = <<>> THEN <<>>
    ELSE LET l == Head(lrows)
             m == Matches(right, rk, l[ColumnIndex(left, lk)])
             ext == RightPart(right, m)
         IN [k \in DOMAIN ext |-> l \o ext[k]]
            \o LeftJoinRows(Tail(lrows), left, right, lk, rk)

\* The joined table, or the exception the merge raises: KeyError for a key
\* that is no column, ValueError for keys of incompatible dtypes.
merge(left, right, lk, rk) ==
    IF ~HasColumn(left, lk) \/ ~HasColumn(right, rk)
    THEN [raised |-> "KeyError"]
    ELSE IF IncompatibleKeys(left, right, lk, rk)
    THEN [raised |-> "ValueError"]
    ELSE [columns |-> Suffixed(left.columns, right.columns, "_x")
                      \o Suffixed(right.columns, left.columns, "_y"),
          rows |-> LeftJoinRows(left.rows, left, right, lk, rk)]

Raised(result) == "raised" \in DOMAIN result

\* The framework's answer to an unhandled exception.
InternalServerError(result) == [status |-> 500, kind |-> result.raised]

-----------------------------------------------------------------------------
\* df[[c for c in allow if c in df.columns]]

Present_TableOrder(allow, df) ==
    SelectSeq(df.columns, LAMBDA c : \E i \in DOMAIN allow : allow[i] = c)

Present(allow, df) == SelectSeq(allow, LAMBDA c : HasColumn(df, c))

Select(df, cols) ==
    [columns |-> cols,
     rows |-> [r \in DOMAIN df.rows |->
                  [j \in DOMAIN cols |-> df.rows[r][ColumnIndex(df, cols[j])]]]]

Project(df, allow) == Select(df, Present(allow, df))

\* df.rename(columns={...})
RenameMap(c) ==
    CASE c = InvoiceNumber -> ReceivedInEDI
      [] c = StatusSummary -> EDIProcessingStatus
      [] c = ERRORDESCRIPTION -> EDIMessage
      [] c = PickRoute -> FoundInAXData
      [] OTHER -> c

rename(df) ==
    [df EXCEPT !.columns = [i \in DOMAIN df.columns |-> RenameMap(df.columns[i])]]

-----------------------------------------------------------------------------
\* Boolean masks and boolean indexing.

\* df[c].isin(values)
isin(df, c, values) == [r \in DOMAIN df.rows |-> Column(df, c)[r] \in values]

MaskAnd(a, b) == [r \in DOMAIN a |-> a[r] /\ b[r]]

RECURSIVE TakeMasked(_, _)
TakeMasked(rows, mask) ==
    IF rows = <<>> THEN <<>>
    ELSE (IF Head(mask) THEN <<Head(rows)>> ELSE <<>>)
         \o TakeMasked(Tail(rows), Tail(mask))

\* df[mask]
BooleanIndex(df, mask) == [df EXCEPT !.rows = TakeMasked(df.rows, mask)]

FilterMask_Or(df) ==
    [r \in DOMAIN df.rows |->
        \/ isin(df, SalesHeaderDocStatus, {"Picking List"})[r]
        \/ isin(df, EDIProcessingStatus, {"AX Load Failure"})[r]]

FilterMask(df) ==
    MaskAnd(isin(df, SalesHeaderDocStatus, {"Picking List"}),
            isin(df, EDIProcessingStatus, {"AX Load Failure"}))

duplicated_KeepLast(df, c) ==
    [r \in DOMAIN df.rows |->
        \E q \in (r + 1)..Len(df.rows) : Column(df, c)[q] = Column(df, c)[r]]

\* df.duplicated(subset=[c]), keep='first'
duplicated(df, c) ==
    [r \in DOMAIN df.rows |->
        \E q \in 1..(r - 1) : Column(df, c)[q] = Column(df, c)[r]]

\* df.drop_duplicates(subset=[c])
drop_duplicates(df, c) ==
    BooleanIndex(df, [r \in DOMAIN df.rows |-> ~duplicated(df, c)[r]])

\* Lines 101-102.
Deduplicate(df) ==
    IF HasColumn(df, Pickticket) THEN drop_duplicates(df, Pickticket) ELSE df

StatusFilter_DedupeFirst(df) ==
    IF HasColumn(df, SalesHeaderDocStatus) /\ HasColumn(df, EDIProcessingStatus)
    THEN BooleanIndex(Deduplicate(df), FilterMask(Deduplicate(df)))
    ELSE df

\* Lines 93-99.
StatusFilter(df) ==
    IF HasColumn(df, SalesHeaderDocStatus) /\ HasColumn(df, EDIProcessingStatus)
    THEN BooleanIndex(df, FilterMask(df))
    ELSE df

-----------------------------------------------------------------------------
\* The decoded inputs.

\* The cells the columns of the inputs draw from.
Keys == {"P1", "P2"}
KeysOrNull == {"P1", "P2", NaN}
EdiStatuses == {"AX Load Failure", "OK"}
DocStatuses == {"Picking List", "Other"}

\* The shapes of the decoded tables: the column names as the file spells
\* them, and the cells each column draws from.
Shapes1 ==
    { [columns |-> <<Pickticket, StatusSummary>>, cells |-> <<KeysOrNull, EdiStatuses>>],
      [columns |-> <<Pickticket>>, cells |-> <<KeysOrNull>>],
      [columns |-> <<Warehouse>>, cells |-> <<{"W1"}>>],
      [columns |-> << <<" ", "Warehouse", "\r">>, <<"U+00A0", "Pickticket">> >>,
       cells |-> <<{"W1"}, Keys>>] }

Shapes2 ==
    { [columns |-> <<AXReferenceID, StatusSummary>>, cells |-> <<Keys, EdiStatuses>>],
      [columns |-> << <<"AXReferenceID", " ", "\n">>, InvoiceNumber >>,
       cells |-> <<{"P1", NaN}, {"X1"}>>],
      [columns |-> <<InvoiceNumber>>, cells |-> <<{"X1"}>>],
      [columns |-> <<AXReferenceID, Pickticket>>, cells |-> <<Keys, {"P1"}>>] }

Shapes3 ==
    { [columns |-> <<PickRoute, SalesHeaderDocStatus>>, cells |-> <<Keys, DocStatuses>>],
      [columns |-> << SalesHeaderDocStatus, <<"\t", "PickRoute", "U+3000">> >>,
       cells |-> <<{"Picking List", NaN}, {"P1", NaN}>>],
      [columns |-> <<SalesHeaderDocStatus>>, cells |-> <<DocStatuses>>],
      [columns |-> <<PickRoute, Pickticket>>, cells |-> <<Keys, {"P1"}>>],
      [columns |-> <<PickRoute, Warehouse>>, cells |-> <<Keys, {"W2"}>>] }

RowsOf(shape) ==
    {r \in [DOMAIN shape.columns -> UNION {shape.cells[j] : j \in DOMAIN shape.cells}] :
        \A j \in DOMAIN shape.columns : r[j] \in shape.cells[j]}

\* The tables of a shape with n rows.
Decoded(shape, n) ==
    {[columns |-> shape.columns, rows |-> rs] : rs \in [1..n -> RowsOf(shape)]}

-----------------------------------------------------------------------------
\* Lines 38-41: the three tables as load_csv_bytes returned them.
Init ==
    /\ pc = "decoded"
    /\ \E h1 \in Shapes1, h2 \in Shapes2, h3 \in Shapes3 :
        \E n1 \in 0..MaxRows :
         \E n2 \in 0..(MaxRows - n1) :
          \E n3 \in 0..(MaxRows - n1 - n2) :
            /\ df1 \in Decoded(h1, n1)
            /\ df2 \in Decoded(h2, n2)
            /\ df3 \in Decoded(h3, n3)
    /\ merged_df = NoTable
    /\ final_merge_df = NoTable
    /\ filtered_df = NoTable
    /\ response = NoResponse

\* Lines 43-46.
NormalizeHeaders ==
    /\ pc = "decoded"
    /\ df1' = TrimHeaders(df1)
    /\ df2' = TrimHeaders(df2)
    /\ df3' = TrimHeaders(df3)
    /\ pc' = "normalized"
    /\ UNCHANGED <<merged_df, final_merge_df, filtered_df, response>>

Required_LabelsSwapped ==
    << [name |-> "EDIB2BiReportV2", df |-> df1, col |-> Pickticket],
       [name |-> "Shipment_History___Total", df |-> df2, col |-> AXReferenceID],
       [name |-> "EDI940Report_withCostV2.0", df |-> df3, col |-> PickRoute] >>

\* Lines 49-53: the checks, in the order the loop makes them.
Required ==
    << [name |-> "Shipment_History___Total", df |-> df1, col |-> Pickticket],
       [name |-> "EDIB2BiReportV2", df |-> df2, col |-> AXReferenceID],
       [name |-> "EDI940Report_withCostV2.0", df |-> df3, col |-> PickRoute] >>

MissingAt(i) == ~HasColumn(Required[i].df, Required[i].col)

\* Line 55.
MissingColumn(i) ==
    [status |-> 400,
     kind |-> "Missing column",
     col |-> Required[i].col,
     name |-> Required[i].name,
     available |-> Required[i].df.columns]

\* Lines 48-55.
ValidateRequired ==
    /\ pc = "normalized"
    /\ \/ /\ \E i \in 1..3 :
               /\ MissingAt(i)
               /\ \A k \in 1..(i - 1) : ~MissingAt(k)
               /\ response' = MissingColumn(i)
          /\ pc' = "failed"
       \/ /\ \A i \in 1..3 : ~MissingAt(i)
          /\ response' = response
          /\ pc' = "validated"
    /\ UNCHANGED <<df1, df2, df3, merged_df, final_merge_df, filtered_df>>

\* Lines 58-60: an exception of the merge is not handled.
FirstJoin ==
    /\ pc = "validated"
    /\ LET result == merge(df1, df2, Pickticket, AXReferenceID)
       IN \/ /\ ~Raised(result)
             /\ merged_df' = TrimHeaders(result)
             /\ response' = response
             /\ pc' = "joined1"
          \/ /\ Raised(result)
             /\ merged_df' = merged_df
             /\ response' = InternalServerError(result)
             /\ pc' = "crashed"
    /\ UNCHANGED <<df1, df2, df3, final_merge_df, filtered_df>>

\* Lines 62-69.
FirstProjection ==
    /\ pc = "joined1"
    /\ merged_df' = Project(merged_df, FirstAllowList)
    /\ pc' = "projected1"
    /\ UNCHANGED <<df1, df2, df3, final_merge_df, filtered_df, response>>

\* Lines 71-72: an exception of the merge (the left key is gone after the
\* first projection, or the keys' dtypes are incompatible) is not handled.
SecondJoin ==
    /\ pc = "projected1"
    /\ LET result == merge(merged_df, df3, Pickticket, PickRoute)
       IN \/ /\ ~Raised(result)
             /\ final_merge_df' = result
             /\ response' = response
             /\ pc' = "joined2"
          \/ /\ Raised(result)
             /\ final_merge_df' = final_merge_df
             /\ response' = InternalServerError(result)
             /\ pc' = "crashed"
    /\ UNCHANGED <<df1, df2, df3, merged_df, filtered_df>>

\* Lines 74-83.
SecondProjection ==
    /\ pc = "joined2"
    /\ final_merge_df' = Project(final_merge_df, SecondAllowList)
    /\ pc' = "projected2"
    /\ UNCHANGED <<df1, df2, df3, merged_df, filtered_df, response>>

\* Lines 85-90.
RenameColumns ==
    /\ pc = "projected2"
    /\ final_merge_df' = rename(final_merge_df)
    /\ pc' = "renamed"
    /\ UNCHANGED <<df1, df2, df3, merged_df, filtered_df, response>>

\* Lines 92-99.
Filter ==
    /\ pc = "renamed"
    /\ filtered_df' = StatusFilter(final_merge_df)
    /\ pc' = "filtered"
    /\ UNCHANGED <<df1, df2, df3, merged_df, final_merge_df, response>>

\* Lines 101-102.
Dedupe ==
    /\ pc = "filtered"
    /\ filtered_df' = Deduplicate(filtered_df)
    /\ pc' = "deduped"
    /\ UNCHANGED <<df1, df2, df3, merged_df, final_merge_df, response>>

\* Lines 104-113: the result table goes out as the spreadsheet attachment.
Respond ==
    /\ pc = "deduped"
    /\ response' = [status |-> 200, table |-> filtered_df]
    /\ pc' = "done"
    /\ UNCHANGED <<df1, df2, df3, merged_df, final_merge_df, filtered_df>>

Next ==
    \/ NormalizeHeaders
    \/ ValidateRequired
    \/ FirstJoin
    \/ FirstProjection
    \/ SecondJoin
    \/ SecondProjection
    \/ RenameColumns
    \/ Filter
    \/ Dedupe
    \/ Respond

Spec == Init /\ [][Next]_vars

-----------------------------------------------------------------------------
\* Vocabulary of the properties.

\* The cell of row under column c of df.
Cell(df, row, c) == row[ColumnIndex(df, c)]

\* The row passes both status tests of the filter.
Passes(df, row) ==
    /\ Cell(df, row, SalesHeaderDocStatus) = "Picking List"
    /\ Cell(df, row, EDIProcessingStatus) = "AX Load Failure"

\* The filter applies to df.
FilterActive(df) ==
    HasColumn(df, SalesHeaderDocStatus) /\ HasColumn(df, EDIProcessingStatus)

AfterValidation ==
    pc \in {"validated", "joined1", "projected1", "joined2", "projected2",
            "renamed", "filtered", "deduped", "done", "crashed"}

KeyMissing ==
    \/ ~HasColumn(df1, Pickticket)
    \/ ~HasColumn(df2, AXReferenceID)
    \/ ~HasColumn(df3, PickRoute)

NothingJoined ==
    merged_df = NoTable /\ final_merge_df = NoTable /\ filtered_df = NoTable

\* C1: once the headers are trimmed, a missing key column stops the run at
\* the validation with a 400 that names the missing column, the label of its
\* table and that table's columns; nothing is joined and no table results.
C1_MissingKeyFails ==
    (pc # "decoded" /\ KeyMissing) =>
        /\ pc \in {"normalized", "failed"}
        /\ NothingJoined
        /\ pc = "failed" =>
             /\ response.status = 400
             /\ response.kind = "Missing column"
             /\ \/ /\ response.col = Pickticket
                   /\ response.name = "Shipment_History___Total"
                   /\ response.available = df1.columns
                \/ /\ response.col = AXReferenceID
                   /\ response.name = "EDIB2BiReportV2"
                   /\ response.available = df2.columns
                \/ /\ response.col = PickRoute
                   /\ response.name = "EDI940Report_withCostV2.0"
                   /\ response.available = df3.columns
             /\ \A i \in DOMAIN response.available :
                    response.available[i] # response.col

C1_Witness ==
    /\ pc = "failed"
    /\ HasColumn(df1, Pickticket)
    /\ response.col = AXReferenceID
    /\ Len(response.available) >= 1

\* C2: with the three key columns present after trimming, the run never ends
\* in a failure: neither the missing-column error nor any other.
C2_OnlyMissingColumnIsFatal ==
    (pc # "decoded" /\ ~KeyMissing) => pc \notin {"failed", "crashed"}

\* C3: the filter step keeps exactly the rows with both status values, in
\* their order and unaltered, and passes every row when a column is absent.
C3_FilterReference ==
    pc = "filtered" =>
        IF FilterActive(final_merge_df)
        THEN /\ filtered_df.columns = final_merge_df.columns
             /\ filtered_df.rows =
                  SelectSeq(final_merge_df.rows,
                            LAMBDA row : Passes(final_merge_df, row))
        ELSE filtered_df = final_merge_df

C3_Witness ==
    /\ pc = "filtered"
    /\ FilterActive(final_merge_df)
    /\ Len(filtered_df.rows) >= 1
    /\ \E r \in DOMAIN final_merge_df.rows :
          /\ Cell(final_merge_df, final_merge_df.rows[r], SalesHeaderDocStatus) = NaN
          /\ Cell(final_merge_df, final_merge_df.rows[r], EDIProcessingStatus)
                = "AX Load Failure"
    /\ \E r \in DOMAIN final_merge_df.rows :
          /\ Cell(final_merge_df, final_merge_df.rows[r], SalesHeaderDocStatus)
                = "Picking List"
          /\ Cell(final_merge_df, final_merge_df.rows[r], EDIProcessingStatus)
                = "AX Load Failure"

\* The first row of df with v under Pickticket.
FirstWith(df, v) ==
    CHOOSE n \in DOMAIN df.rows :
        /\ Column(df, Pickticket)[n] = v
        /\ \A m \in 1..(n - 1) : Column(df, Pickticket)[m] # v

FirstOccurrences(before, after) ==
    LET kb == Column(before, Pickticket)
        ka == Column(after, Pickticket)
    IN /\ after.columns = before.columns
       /\ \A i, j \in DOMAIN after.rows : i # j => ka[i] # ka[j]
       /\ {ka[i] : i \in DOMAIN ka} = {kb[i] : i \in DOMAIN kb}
       /\ \A i \in DOMAIN after.rows : after.rows[i] = before.rows[FirstWith(before, ka[i])]
       /\ \A i, j \in DOMAIN after.rows :
             i < j => FirstWith(before, ka[i]) < FirstWith(before, ka[j])

\* C4: when the result has a Pickticket column, the deduplication leaves one
\* row per Pickticket value, the first of the filtered table with that value,
\* and the survivors stay in the order of their first appearance.
C4_DedupeKeepsFirst ==
    [][(pc = "filtered" /\ pc' = "deduped" /\ HasColumn(filtered_df', Pickticket))
          => FirstOccurrences(filtered_df, filtered_df')]_vars

C4_Witness ==
    /\ pc = "deduped"
    /\ HasColumn(filtered_df, Pickticket)
    /\ ~FilterActive(final_merge_df)
    /\ Len(filtered_df.rows) = 2
    /\ Len(final_merge_df.rows) = 3
    /\ Column(final_merge_df, Pickticket)[1] = Column(final_merge_df, Pickticket)[3]
    /\ final_merge_df.rows[1] # final_merge_df.rows[3]

\* The number of rows of right whose key is v.
MatchCount(right, rk, v) ==
    Cardinality({q \in DOMAIN right.rows : Cell(right, right.rows[q], rk) = v})

LeftPart(left, row) == SubSeq(row, 1, Len(left.columns))

RightSide(left, row) == SubSeq(row, Len(left.columns) + 1, Len(row))

LeftRowsKept(left, right, out, lk, rk) ==
    /\ Len(out.rows) >= Len(left.rows)
    /\ \A i \in DOMAIN left.rows :
          /\ \E o \in DOMAIN out.rows : LeftPart(left, out.rows[o]) = left.rows[i]
          /\ MatchCount(right, rk, Cell(left, left.rows[i], lk)) = 0 =>
                \A o \in DOMAIN out.rows :
                    LeftPart(left, out.rows[o]) = left.rows[i] =>
                        /\ Len(RightSide(left, out.rows[o])) = Len(right.columns)
                        /\ \A j \in 1..Len(right.columns) :
                              RightSide(left, out.rows[o])[j] = NaN
    /\ Len(out.rows) > Len(left.rows) =>
          \E i \in DOMAIN left.rows :
              MatchCount(right, rk, Cell(left, left.rows[i], lk)) >= 2

\* C5: each left join keeps every left row, with nulls on the right side of
\* an unmatched one, and has more rows than its left table only when a key
\* matches several right rows.
C5_LeftJoinsKeepLeftRows ==
    /\ pc = "joined1" => LeftRowsKept(df1, df2, merged_df, Pickticket, AXReferenceID)
    /\ pc = "joined2" => LeftRowsKept(merged_df, df3, final_merge_df, Pickticket, PickRoute)

C5_Witness ==
    /\ pc = "joined2"
    /\ Len(df1.rows) = 1
    /\ Len(merged_df.rows) = 2
    /\ Len(final_merge_df.rows) = 2
    /\ Len(df3.rows) = 0
    /\ Len(df3.columns) = 2
    /\ \A j \in 1..Len(df3.columns) :
          RightSide(merged_df, final_merge_df.rows[1])[j] = NaN

\* The table the run holds once the second projection is made.
Projected ==
    IF pc \in {"projected2", "renamed"} THEN final_merge_df ELSE filtered_df

\* C6: from the second projection on, and in the table returned, Pickticket
\* is the first column whenever the second join's result has that column.
C6_PickticketFirst ==
    (/\ pc \in {"projected2", "renamed", "filtered", "deduped", "done"}
     /\ HasColumn(merge(merged_df, df3, Pickticket, PickRoute), Pickticket))
        => /\ Projected.columns # <<>>
           /\ Projected.columns[1] = Pickticket
           /\ pc = "done" => response.table.columns[1] = Pickticket

C6_Witness ==
    /\ pc = "done"
    /\ df1.columns = <<Warehouse, Pickticket>>
    /\ response.table.columns[1] = Pickticket
    /\ response.table.columns[2] = Warehouse
    /\ Len(response.table.rows) >= 1

\* The columns of list that df has, in list's order.
Intersection(list, df) ==
    SelectSeq(list, LAMBDA c : \E i \in DOMAIN df.columns : df.columns[i] = c)

\* The table keeps the named columns of df, cell by cell, and its rows.
KeepsColumns(df, out, cols) ==
    /\ out.columns = cols
    /\ Len(out.rows) = Len(df.rows)
    /\ \A r \in DOMAIN df.rows :
          /\ Len(out.rows[r]) = Len(cols)
          /\ \A j \in DOMAIN cols :
                out.rows[r][j] = Cell(df, df.rows[r], cols[j])

\* The step-4 list with Pickticket moved to its front, then the EDI-940 names.
PickticketFirstAllowList ==
    <<Pickticket>>
    \o SelectSeq(FirstAllowList, LAMBDA c : c # Pickticket)
    \o << PickRoute, <<"SalesHeaderStatus">>, SalesHeaderDocStatus,
          <<"PickModeOfDelivery">>, <<"PickCreatedDate">>, <<"DeliveryDate">> >>

\* C7 as stated: the second projection orders the kept columns as the step-4
\* list does (Warehouse, Pickticket, Order, ...), then the EDI-940 names.
C7_StepFourOrder ==
    [][(pc = "joined2" /\ pc' = "projected2")
          => KeepsColumns(final_merge_df, final_merge_df',
                          Intersection(SecondAllowList_StepFourOrder, final_merge_df))]_vars

\* C7 amended: the second projection keeps exactly the allow-listed columns
\* of the second join's result, never failing on absent ones, in the order
\* Pickticket, Warehouse, Order, ..., ERRORDESCRIPTION, PickRoute, ...,
\* DeliveryDate.
C7_PickticketFirstOrder ==
    [][(pc = "joined2" /\ pc' = "projected2")
          => KeepsColumns(final_merge_df, final_merge_df',
                          Intersection(PickticketFirstAllowList, final_merge_df))]_vars

C7_Witness ==
    /\ pc = "projected2"
    /\ final_merge_df.columns =
          <<Pickticket, Warehouse, InvoiceNumber, PickRoute, SalesHeaderDocStatus>>
    /\ df3.columns = <<SalesHeaderDocStatus, PickRoute>>
    /\ Len(final_merge_df.rows) >= 1

\* C8 as stated: no step changes the column names or the rows of an input.
C8_InputsNeverChange ==
    [][df1' = df1 /\ df2' = df2 /\ df3' = df3]_vars

\* name is old without its leading and trailing whitespace.
TrimmedFrom(old, name) ==
    /\ \E i \in 1..(Len(old) + 1) : \E j \in 0..Len(old) :
          /\ name = SubSeq(old, i, j)
          /\ \A k \in (1..(i - 1)) \cup ((j + 1)..Len(old)) : old[k] \in Whitespace
    /\ name # <<>> => (name[1] \notin Whitespace /\ name[Len(name)] \notin Whitespace)

InputKept(old, new) ==
    /\ new.rows = old.rows
    /\ Len(new.columns) = Len(old.columns)
    /\ \A i \in DOMAIN old.columns :
          \/ new.columns[i] = old.columns[i]
          \/ /\ pc = "decoded"
             /\ TrimmedFrom(old.columns[i], new.columns[i])

\* C8 amended: no step changes the rows of an input table, and a column name
\* of an input changes only in the header normalization, which replaces it in
\* place by its trimmed form; every later step leaves the inputs as they are.
C8_OnlyHeadersTrimmedInPlace ==
    [][/\ InputKept(df1, df1')
       /\ InputKept(df2, df2')
       /\ InputKept(df3, df3')
       /\ pc = "decoded" =>
             \A t \in {df1', df2', df3'} : \A i \in DOMAIN t.columns :
                 TrimmedFrom(t.columns[i], t.columns[i])]_vars

C8_Witness ==
    /\ pc = "done"
    /\ df1.columns = <<Warehouse, Pickticket>>
    /\ df2.columns = <<AXReferenceID, InvoiceNumber>>
    /\ df3.columns = <<SalesHeaderDocStatus, PickRoute>>
    /\ Len(response.table.rows) >= 1

\* C9: with the filter active, a Pickticket of the joined table is in the
\* result exactly when one of its rows passes the filter, and its result row
\* is the first passing one, in join order.
C9_FilterBeforeDedupe ==
    (/\ pc \in {"deduped", "done"}
     /\ FilterActive(final_merge_df)
     /\ HasColumn(final_merge_df, Pickticket))
        => \A n \in DOMAIN final_merge_df.rows :
              LET v == Column(final_merge_df, Pickticket)[n]
                  passing == {m \in DOMAIN final_merge_df.rows :
                                 /\ Column(final_merge_df, Pickticket)[m] = v
                                 /\ Passes(final_merge_df, final_merge_df.rows[m])}
                  inResult == {i \in DOMAIN filtered_df.rows :
                                 Column(filtered_df, Pickticket)[i] = v}
              IN /\ (inResult # {}) <=> (passing # {})
                 /\ passing # {} =>
                       \A i \in inResult :
                           \E m \in passing :
                               /\ \A q \in passing : m <= q
                               /\ filtered_df.rows[i] = final_merge_df.rows[m]

C9_Witness ==
    /\ pc = "done"
    /\ FilterActive(final_merge_df)
    /\ HasColumn(final_merge_df, Pickticket)
    /\ Len(final_merge_df.rows) >= 2
    /\ Column(final_merge_df, Pickticket)[1] = Column(final_merge_df, Pickticket)[2]
    /\ ~Passes(final_merge_df, final_merge_df.rows[1])
    /\ Passes(final_merge_df, final_merge_df.rows[2])
    /\ filtered_df.rows = <<final_merge_df.rows[2]>>

\* C10: when the filter applies, every result row carries its own Pickticket
\* under 'Found in AX DATa?', and its Pickticket is the PickRoute of an edi940
\* row.
C10_FilteredRowsAreMatched ==
    (/\ pc \in {"filtered", "deduped", "done"}
     /\ FilterActive(final_merge_df)
     /\ HasColumn(filtered_df, Pickticket))
        => /\ HasColumn(filtered_df, FoundInAXData)
           /\ \A i \in DOMAIN filtered_df.rows :
                 /\ Column(filtered_df, FoundInAXData)[i]
                       = Column(filtered_df, Pickticket)[i]
                 /\ \E q \in DOMAIN df3.rows :
                       Cell(df3, df3.rows[q], PickRoute)
                          = Column(filtered_df, Pickticket)[i]

C10_Witness ==
    /\ pc = "done"
    /\ FilterActive(final_merge_df)
    /\ HasColumn(filtered_df, Pickticket)
    /\ Len(filtered_df.rows) >= 1
    /\ \E n \in DOMAIN final_merge_df.rows :
          /\ Column(final_merge_df, FoundInAXData)[n] = NaN
          /\ Column(final_merge_df, EDIProcessingStatus)[n] = "AX Load Failure"

====
